---- MODULE Spec2Model ----
(***************************************************************************)
(* State-machine model of the solar-system simulator (src/main.py):        *)
(* CelestialBody, SolarSystem (construction, scaling, update) and the      *)
(* pause / speed handlers wired in SolarSystem.visualize_interactive.      *)
(*                                                                         *)
(* Number representation (TLC has no reals):                               *)
(*   - angles (phase, tilt) are exact rationals, in units of pi;           *)
(*   - the time step is counted in tenths of a day (the slider's valstep); *)
(*   - distances are in thousandths of an AU, scaled distances likewise;   *)
(*   - scaled radii are in millionths;                                     *)
(*   - np.log10 and x ** 0.7 are tabulated, in millionths, on the values   *)
(*     the catalog gives them;                                             *)
(*   - a 3-vector d*(cos a, sin a cos t, sin a sin t) is the record        *)
(*     [mag |-> d, angle |-> a, tilt |-> t]; a zero vector is ZeroPoint.   *)
(***************************************************************************)
EXTENDS Integers, Sequences, FiniteSets

VARIABLES
    scale_mode,     \* self.scale_mode
    time_step,      \* self.time_step, in tenths of a day
    bodies,         \* self.bodies: sequence of CelestialBody records
    trails,         \* self.trails: body name -> sequence of points
    paused,         \* self.paused
    slider_val,     \* slider_speed.val, in tenths
    frame,          \* the frame number FuncAnimation hands to draw_frame
    error,          \* "none", or the exception that ended the program
    scale_mode_arg, \* history: the scale_mode argument of SolarSystem(...)
    angle0,         \* history: every body's angle after construction
    sumDt,          \* history: sum of the time steps of the unpaused updates
    pushed,         \* history: body name -> every point appended to its trail
    updated,        \* history: names of the bodies update_position ran on
    lastOp,         \* history: the last operation applied, with its input
    query           \* the last scaling query and its results

vars == <<scale_mode, time_step, bodies, trails, paused, slider_val, frame,
          error, scale_mode_arg, angle0, sumDt, pushed, updated, lastOp, query>>

----------------------------------------------------------------------------
(* Bounds of the model *)

\* number of frames the animation is followed for
MaxFrames == 4

\* the random initial phases are drawn from seeds 0..MaxSeed
MaxSeed == 1

\* self.trail_length; the source sets 100 (main.py:68), scaled down here so
\* that a trail fills up and evicts within MaxFrames frames
trail_length == 3

----------------------------------------------------------------------------
(* Exact rational arithmetic *)

Abs(n) == IF n < 0 THEN -n ELSE n

RECURSIVE GCD(_, _)
GCD(a, b) == IF b = 0 THEN a ELSE GCD(b, a % b)

\* the rational n/d in lowest terms, with a positive denominator (d # 0)
Rat(n, d) ==
    LET g == GCD(Abs(n), Abs(d))
        s == IF d < 0 THEN -1 ELSE 1
    IN  [num |-> (s * n) \div g, den |-> (s * d) \div g]

RatAdd(p, q) ==
    LET g == GCD(p.den, q.den)
        l == (p.den \div g) * q.den
    IN  Rat(p.num * (l \div p.den) + q.num * (l \div q.den), l)

RatMul(p, q) ==
    LET g1 == GCD(Abs(p.num), q.den)
        g2 == GCD(Abs(q.num), p.den)
    IN  Rat((p.num \div g1) * (q.num \div g2), (p.den \div g2) * (q.den \div g1))

RatLess(p, q) == p.num * q.den < q.num * p.den

----------------------------------------------------------------------------
(* CelestialBody *)

ZeroPoint == [mag |-> 0, angle |-> Rat(0, 1), tilt |-> Rat(0, 1)]

\* np.array([x, y, z]) with x = d cos a, y = d sin a cos t, z = d sin a sin t
Vec(d, a, t) == IF d = 0 THEN ZeroPoint ELSE [mag |-> d, angle |-> a, tilt |-> t]

\* np.radians(tilt): tenths of a degree to radians, in units of pi
Radians(tiltTenths) == Rat(tiltTenths, 1800)

\* np.random.uniform(0, 2 * np.pi) for the i-th body constructed, in units of
\* pi: a value of [0, 2) fixed by the generator's seed
RandomAngle(seed, i) == Rat((7 * i + 5 * seed) % 16, 8)

\* CelestialBody.__init__: no argument is validated
CelestialBody(data, startAngle) ==
    [name           |-> data.name,
     radius         |-> data.radius,
     distance       |-> data.distance,
     orbital_period |-> data.period,
     color          |-> data.color,
     tilt           |-> Radians(data.tilt),
     angle          |-> startAngle,
     position       |-> ZeroPoint]

\* the body a wrapping update would leave (faulty variant of update_position)
update_position_Wrapped(body, dt) ==
    IF body.orbital_period = 0
    THEN [ok |-> FALSE, body |-> body]
    ELSE LET a == RatAdd(body.angle,
                         RatMul(Rat(2, body.orbital_period), Rat(dt, 10)))
             w == IF RatLess(a, Rat(2, 1)) THEN a ELSE RatAdd(a, Rat(-2, 1))
         IN  [ok |-> TRUE,
              body |-> [body EXCEPT !.angle = w,
                                    !.position = Vec(body.distance, w, body.tilt)]]

\* CelestialBody.update_position(time_step); dt in tenths of a day.
\* ok = FALSE: (2 * np.pi) / 0 raised ZeroDivisionError, nothing assigned.
update_position(body, dt) ==
    IF body.orbital_period = 0
    THEN [ok |-> FALSE, body |-> body]
    ELSE LET angular_velocity == Rat(2, body.orbital_period)
             a == RatAdd(body.angle, RatMul(angular_velocity, Rat(dt, 10)))
         IN  [ok |-> TRUE,
              body |-> [body EXCEPT !.angle = a,
                                    !.position = Vec(body.distance, a, body.tilt)]]

----------------------------------------------------------------------------
(* SolarSystem: construction *)

\* bodies_data: radius km, distance in thousandths of an AU, period in days,
\* tilt in tenths of a degree
bodies_data ==
    << [name |-> "Sun",     radius |-> 696000, distance |-> 0,     period |-> 0,     color |-> "#FDB813", tilt |-> 0],
       [name |-> "Mercury", radius |-> 2440,   distance |-> 390,   period |-> 88,    color |-> "#8C7853", tilt |-> 70],
       [name |-> "Venus",   radius |-> 6052,   distance |-> 720,   period |-> 225,   color |-> "#FFC649", tilt |-> 34],
       [name |-> "Earth",   radius |-> 6371,   distance |-> 1000,  period |-> 365,   color |-> "#4169E1", tilt |-> 0],
       [name |-> "Mars",    radius |-> 3390,   distance |-> 1520,  period |-> 687,   color |-> "#CD5C5C", tilt |-> 19],
       [name |-> "Jupiter", radius |-> 69911,  distance |-> 5200,  period |-> 4333,  color |-> "#DAA520", tilt |-> 13],
       [name |-> "Saturn",  radius |-> 58232,  distance |-> 9540,  period |-> 10759, color |-> "#F4A460", tilt |-> 25],
       [name |-> "Uranus",  radius |-> 25362,  distance |-> 19190, period |-> 30687, color |-> "#4FD0E0", tilt |-> 8],
       [name |-> "Neptune", radius |-> 24622,  distance |-> 30070, period |-> 60190, color |-> "#4169E1", tilt |-> 18] >>

\* _initialize_bodies, the body list: CelestialBody(*data) in catalog order
InitialBodies(catalog, seed) ==
    [i \in 1..Len(catalog) |-> CelestialBody(catalog[i], RandomAngle(seed, i))]

\* _initialize_bodies, the trail map: an empty trail for every body whose
\* name is not 'Sun'
InitialTrails(catalog) ==
    [n \in {catalog[i].name : i \in 1..Len(catalog)} \ {"Sun"} |-> <<>>]

----------------------------------------------------------------------------
(* SolarSystem: scaling *)

\* np.log10(x), in millionths; x in thousandths
Log10Micro(x) ==
    CASE x = 1000      -> 0
      [] x = 4900      -> 690196
      [] x = 8200      -> 913814
      [] x = 11000     -> 1041393
      [] x = 16200     -> 1209515
      [] x = 53000     -> 1724276
      [] x = 96400     -> 1984077
      [] x = 192900    -> 2285332
      [] x = 301700    -> 2479575
      [] x = 2440000   -> 3387390
      [] x = 3390000   -> 3530200
      [] x = 6052000   -> 3781899
      [] x = 6371000   -> 3804208
      [] x = 24622000  -> 4391323
      [] x = 25362000  -> 4404183
      [] x = 58232000  -> 4765162
      [] x = 69911000  -> 4844546
      [] x = 696000000 -> 5842609

\* x ** 0.7, in millionths; x in thousandths
Pow07Micro(x) ==
    CASE x = 0     -> 0
      [] x = 390   -> 517303
      [] x = 720   -> 794571
      [] x = 1000  -> 1000000
      [] x = 1520  -> 1340573
      [] x = 5200  -> 3171045
      [] x = 9540  -> 4849354
      [] x = 19190 -> 7909563
      [] x = 30070 -> 10831620

\* the logarithmic radius formula with its sign slipped (faulty variant)
get_scaled_radius_SignSlip(radius) ==
    IF scale_mode = "realistic" THEN radius * 10
    ELSE IF scale_mode = "logarithmic"
         THEN 20000 - Log10Micro(radius * 1000) \div 100
         ELSE 50000 + (radius * 10) * 2

\* SolarSystem.get_scaled_radius(radius): km to millionths
get_scaled_radius(radius) ==
    IF scale_mode = "realistic" THEN radius * 10
    ELSE IF scale_mode = "logarithmic"
         THEN 20000 + Log10Micro(radius * 1000) \div 100
         ELSE 50000 + (radius * 10) * 2

\* SolarSystem.get_scaled_distance(distance): thousandths to thousandths
get_scaled_distance(distance) ==
    IF scale_mode = "realistic" THEN distance
    ELSE IF scale_mode = "logarithmic"
         THEN IF distance = 0 THEN 0
              ELSE (Log10Micro(distance * 10 + 1000) * 3) \div 1000
         ELSE (Pow07Micro(distance) * 5) \div 1000

\* draw_frame: pos * np.array([r, r, r]) with r = get_scaled_distance(1) / 1
ScalePoint(p) ==
    Vec((p.mag * get_scaled_distance(1000)) \div 1000, p.angle, p.tilt)

\* draw_frame: scaled_pos of a body
scaled_pos(body) == ScalePoint(body.position)

\* draw_frame: scaled_trail of a body, the trail as it is plotted
scaled_trail(name) == [i \in 1..Len(trails[name]) |-> ScalePoint(trails[name][i])]

----------------------------------------------------------------------------
(* SolarSystem.update *)

\* an update loop that does not skip the sun (faulty variant)
OrbitingIndices_All == 1..Len(bodies)

\* for body in self.bodies[1:]
OrbitingIndices == 2..Len(bodies)

\* a trail that is given the scaled position (faulty variant)
TrailPoint_Scaled(body) == ScalePoint(body.position)

\* body.position.copy(), the point appended to the trail
TrailPoint(body) == body.position

\* an append that evicts the newest entry instead of the oldest (faulty variant)
TrailAppend_PopLast(trail, point) ==
    LET t == Append(trail, point)
    IN  IF Len(t) > trail_length THEN SubSeq(t, 1, Len(t) - 1) ELSE t

\* trails[name].append(point); pop(0) when longer than trail_length
TrailAppend(trail, point) ==
    LET t == Append(trail, point)
    IN  IF Len(t) > trail_length THEN Tail(t) ELSE t

\* one iteration of the loop body for bodies[i], on the loop state st
UpdateBody(st, i) ==
    LET r == update_position(st.bodies[i], time_step)
        n == st.bodies[i].name
    IN  IF ~r.ok
        THEN [st EXCEPT !.error = "ZeroDivisionError",
                        !.updated = st.updated \cup {n}]
        ELSE LET b == r.body
                 st1 == [st EXCEPT !.bodies[i] = b,
                                   !.updated = st.updated \cup {n}]
             IN  IF n \in DOMAIN st.trails
                 THEN [st1 EXCEPT
                         !.trails[n] = TrailAppend(st.trails[n], TrailPoint(b)),
                         !.pushed[n] = Append(st.pushed[n], TrailPoint(b))]
                 ELSE st1

\* the loop over the indices from i on, in order; an exception ends it
RECURSIVE UpdateLoop(_, _)
UpdateLoop(st, i) ==
    IF i \notin OrbitingIndices \/ st.error # "none"
    THEN st
    ELSE UpdateLoop(UpdateBody(st, i), i + 1)

LoopState ==
    [bodies |-> bodies, trails |-> trails, error |-> error,
     pushed |-> pushed, updated |-> updated]

FirstIndex == IF OrbitingIndices = {} THEN 1
              ELSE CHOOSE i \in OrbitingIndices : \A j \in OrbitingIndices : i <= j

\* the record of an operation: twice = it repeats the operation before it
Op(name, v) ==
    [op |-> name, val |-> v, twice |-> lastOp.op = name /\ lastOp.val = v]

\* an update that ignores the pause flag (faulty variant)
update_result_NoPause == UpdateLoop(LoopState, FirstIndex)

\* SolarSystem.update(frame): the state it leaves
update_result == IF ~paused THEN UpdateLoop(LoopState, FirstIndex) ELSE LoopState

update ==
    /\ error = "none"
    /\ frame < MaxFrames
    /\ LET st == update_result
       IN  /\ bodies' = st.bodies
           /\ trails' = st.trails
           /\ error' = st.error
           /\ pushed' = st.pushed
           /\ updated' = st.updated
           /\ sumDt' = IF paused THEN sumDt ELSE sumDt + time_step
    /\ frame' = frame + 1
    /\ lastOp' = Op("update", 0)
    /\ UNCHANGED <<scale_mode, time_step, paused, slider_val, scale_mode_arg,
                   angle0, query>>

----------------------------------------------------------------------------
(* The controls of visualize_interactive *)

\* Slider(ax_speed, 'Speed', 0.1, 10.0, valinit=1.0, valstep=0.1), in tenths
valmin == 1
valmax == 100
valinit == 10
valstep == 1

\* a slider that does not stop at its upper end (faulty variant)
value_in_bounds_NoMax(x) ==
    LET stepped == valmin + ((x - 10 * valmin + 5 * valstep) \div (10 * valstep)) * valstep
    IN  IF stepped <= valmin THEN valmin ELSE stepped

\* the value the Slider widget takes when dragged to x (x in hundredths):
\* stepped to valstep from valmin, then kept within [valmin, valmax]. This is
\* the widget's doing, for the arguments main.py:252-253 constructs it with;
\* update_speed itself copies slider_speed.val and clamps nothing.
value_in_bounds(x) ==
    LET stepped == valmin + ((x - 10 * valmin + 5 * valstep) \div (10 * valstep)) * valstep
    IN  IF stepped <= valmin THEN valmin
        ELSE IF stepped >= valmax THEN valmax ELSE stepped

\* positions the slider is dragged to, in hundredths: 0.0, 2.54 and 50
SliderInputs == {0, 254, 5000}

\* a handler that sets the flag instead of flipping it (faulty variant)
toggle_pause_value_Set == TRUE

\* toggle_pause: the new value of self.paused
toggle_pause_value == ~paused

toggle_pause ==
    /\ error = "none"
    /\ paused' = toggle_pause_value
    /\ lastOp' = Op("toggle_pause", 0)
    /\ UNCHANGED <<scale_mode, time_step, bodies, trails, slider_val, frame, error,
                   scale_mode_arg, angle0, sumDt, pushed, updated, query>>

\* the slider moves to x and calls update_speed, which reads slider_speed.val
update_speed ==
    /\ error = "none"
    /\ \E x \in SliderInputs :
         /\ slider_val' = value_in_bounds(x)
         /\ time_step' = slider_val'
         /\ lastOp' = Op("update_speed", x)
    /\ UNCHANGED <<scale_mode, bodies, trails, paused, frame, error,
                   scale_mode_arg, angle0, sumDt, pushed, updated, query>>

----------------------------------------------------------------------------
(* Specifications *)

\* scale_mode arguments SolarSystem is constructed with: the three named
\* modes and a string that names none
ValidModes == {"realistic", "logarithmic", "artistic"}
ScaleModeArgs == ValidModes \cup {"cubic"}

NoQuery == [kind |-> "none", in1 |-> 0, in2 |-> 0, out1 |-> 0, out2 |-> 0]

\* SolarSystem.__init__(scale_mode) on the given catalog
Construct(mode, catalog, seed) ==
    /\ scale_mode = mode
    /\ time_step = 10
    /\ bodies = InitialBodies(catalog, seed)
    /\ trails = InitialTrails(catalog)
    /\ paused = FALSE
    /\ slider_val = valinit
    /\ frame = 0
    /\ error = "none"
    /\ scale_mode_arg = mode
    /\ angle0 = [i \in 1..Len(catalog) |-> RandomAngle(seed, i)]
    /\ sumDt = 0
    /\ pushed = InitialTrails(catalog)
    /\ updated = {}
    /\ lastOp = [op |-> "none", val |-> 0, twice |-> FALSE]
    /\ query = NoQuery

Init == \E mode \in ScaleModeArgs, seed \in 0..MaxSeed :
            Construct(mode, bodies_data, seed)

Next == update \/ toggle_pause \/ update_speed

Spec == Init /\ [][Next]_vars

(* The model built from a catalog whose second entry has another period *)

CatalogPeriods == {88, 0, -88}

CatalogWith(p) == [bodies_data EXCEPT ![2].period = p]

InitCatalog == \E mode \in ValidModes, p \in CatalogPeriods :
                   Construct(mode, CatalogWith(p), 0)

SpecCatalog == InitCatalog /\ [][Next]_vars

(* The scaling functions applied to pairs of catalog values *)

Radii == {bodies_data[i].radius : i \in 1..Len(bodies_data)}
Distances == {bodies_data[i].distance : i \in 1..Len(bodies_data)}

ScaledRadiusQuery ==
    /\ \E r1 \in Radii, r2 \in Radii :
         query' = [kind |-> "radius", in1 |-> r1, in2 |-> r2,
                   out1 |-> get_scaled_radius(r1), out2 |-> get_scaled_radius(r2)]
    /\ UNCHANGED <<scale_mode, time_step, bodies, trails, paused, slider_val, frame,
                   error, scale_mode_arg, angle0, sumDt, pushed, updated, lastOp>>

ScaledDistanceQuery ==
    /\ \E d1 \in Distances, d2 \in Distances :
         query' = [kind |-> "distance", in1 |-> d1, in2 |-> d2,
                   out1 |-> get_scaled_distance(d1), out2 |-> get_scaled_distance(d2)]
    /\ UNCHANGED <<scale_mode, time_step, bodies, trails, paused, slider_val, frame,
                   error, scale_mode_arg, angle0, sumDt, pushed, updated, lastOp>>

NextScale == ScaledRadiusQuery \/ ScaledDistanceQuery

SpecScale == Init /\ [][NextScale]_vars

----------------------------------------------------------------------------
(* Properties *)

Last(s) == s[Len(s)]

\* the last k entries of s, in order
LastK(s, k) == IF Len(s) <= k THEN s ELSE SubSeq(s, Len(s) - k + 1, Len(s))

\* C1: an update made while the pause flag is set leaves every body (phase
\* and position) and every trail exactly as it was, whatever came before.
C1_PausedUpdateChangesNothing ==
    [][(paused /\ frame' = frame + 1) => (bodies' = bodies /\ trails' = trails)]_vars

\* two updates in a row while paused, after an unpaused update and a speed change
W_C1 ==
    /\ paused /\ lastOp.op = "update" /\ lastOp.twice
    /\ Len(trails["Earth"]) > 0 /\ time_step # 10

\* C2: a trail never holds more than trail_length entries, and it holds the
\* last trail_length points appended to it, oldest first.
C2_TrailBoundedFifo ==
    \A n \in DOMAIN trails :
        /\ Len(trails[n]) <= trail_length
        /\ trails[n] = LastK(pushed[n], trail_length)

\* more points were appended to a trail than it holds
W_C2 ==
    \E n \in DOMAIN trails :
        Len(pushed[n]) > trail_length /\ Len(trails[n]) = trail_length

CE_C4 ==
    scale_mode_arg \notin ValidModes =>
        /\ scale_mode = "logarithmic"
        /\ \A r \in Radii :
             get_scaled_radius(r) = 20000 + Log10Micro(r * 1000) \div 100
        /\ \A d \in Distances :
             get_scaled_distance(d) =
                 IF d = 0 THEN 0 ELSE (Log10Micro(d * 10 + 1000) * 3) \div 1000

\* C5: a catalog entry of a non-central body with a period <= 0 is turned down
\* at construction, so no update ever ends in a division by zero.
CE_C5 == error # "ZeroDivisionError"

\* C6: the central body is never advanced: its phase and position stay as
\* constructed, update_position never runs on it (so nothing divides by its
\* zero period), and the trail map has no key for it.
C6_CentralBodyNeverAdvanced ==
    /\ bodies[1].name = "Sun"
    /\ bodies[1].distance = 0 /\ bodies[1].orbital_period = 0
    /\ bodies[1].angle = angle0[1]
    /\ bodies[1].position = ZeroPoint
    /\ "Sun" \notin updated
    /\ "Sun" \notin DOMAIN trails
    /\ error = "none"

\* every planet was advanced, after a pause and a speed change
W_C6 ==
    /\ updated = {bodies[i].name : i \in 2..Len(bodies)}
    /\ paused /\ time_step # 10 /\ sumDt > 10

\* C7 as stated: the point appended to a body's trail is the body's scaled
\* (display-space) position.
CE_C7 ==
    \A i \in 2..Len(bodies) :
        LET t == trails[bodies[i].name]
        IN  Len(t) > 0 => Last(t) = scaled_pos(bodies[i])

\* C7 as amended: the point appended to a body's trail is the body's raw
\* position, and every trail entry is a raw position at the body's orbital
\* distance; the scale ratio is applied to the trail when it is drawn.
C7_TrailHoldsRawPositions ==
    \A i \in 2..Len(bodies) :
        LET n == bodies[i].name
            t == trails[n]
        IN  /\ Len(t) > 0 => Last(t) = bodies[i].position
            /\ \A k \in 1..Len(t) :
                 /\ t[k].mag = bodies[i].distance
                 /\ scaled_trail(n)[k].mag =
                        (bodies[i].distance * get_scaled_distance(1000)) \div 1000

\* a full trail in logarithmic mode, whose entries differ from the scaled ones
W_C7 ==
    /\ scale_mode = "logarithmic"
    /\ Len(trails["Jupiter"]) = trail_length
    /\ Last(trails["Jupiter"]) # scaled_pos(bodies[6])

\* C8: every planet's phase is its initial phase plus (2 pi / period) times
\* the sum of the time steps of the unpaused updates, and is never wrapped.
C8_PhaseIsLinearInTime ==
    \A i \in 2..Len(bodies) :
        bodies[i].angle =
            RatAdd(angle0[i], RatMul(Rat(2, bodies[i].orbital_period), Rat(sumDt, 10)))

\* a phase beyond 2 pi, reached with updates at more than one time step
W_C8 ==
    /\ RatLess(Rat(2, 1), bodies[2].angle)
    /\ sumDt % 10 # 0 /\ frame >= 3

\* C9 as stated: an operation applied twice in a row leaves the clock (pause
\* flag and time step) as it was after the first application.
CE_C9 ==
    [][lastOp'.twice => (paused' = paused /\ time_step' = time_step)]_vars

\* C9 as amended: update and update_speed applied twice in a row leave the
\* clock as after the first application; toggle_pause always flips the pause
\* flag and leaves the time step alone, so two in a row restore the flag.
C9_ClockOperations ==
    [][/\ (lastOp'.twice /\ lastOp'.op # "toggle_pause")
            => (paused' = paused /\ time_step' = time_step)
       /\ lastOp'.op = "toggle_pause"
            => (paused' = ~paused /\ time_step' = time_step)]_vars

\* toggle_pause applied twice in a row: the flag is back to unpaused
W_C9 == lastOp.op = "toggle_pause" /\ lastOp.twice /\ ~paused /\ time_step = 100

\* C10: in each of the three modes the scaled radius is non-decreasing in the
\* radius and the scaled distance is non-decreasing in the distance, over the
\* catalog's values; the logarithmic scaled distance of 0 is 0.
C10_ScalingMonotonic ==
    /\ (scale_mode \in ValidModes /\ query.kind # "none" /\ query.in1 <= query.in2)
          => query.out1 <= query.out2
    /\ (scale_mode = "logarithmic" /\ query.kind = "distance" /\ query.in1 = 0)
          => query.out1 = 0

\* the logarithmic distances of 0 and of Neptune's 30.07 AU
W_C10 ==
    /\ scale_mode = "logarithmic" /\ query.kind = "distance"
    /\ query.in1 = 0 /\ query.in2 = 30070
    /\ query.out1 = 0 /\ query.out2 > 0

====
